---- MODULE Spec2Model ----
(***************************************************************************)
(* Model of the streaming chat client of senpaiChat                        *)
(* (src/src/components/ChatInterface.tsx, second revision, lines 437-915): *)
(* the component state (messages, isLoading, error, abortControllerRef),   *)
(* resetChat, processSSEData and the asynchronous handleSubmit, one action *)
(* per synchronous run of code between two awaits.                         *)
(*                                                                         *)
(* Text is a sequence of one-character strings, so that split, startsWith, *)
(* substring and trimStart are computed as the code computes them.         *)
(***************************************************************************)
EXTENDS Naturals, Sequences, FiniteSets

VARIABLES
    messages,            \* useState<Message[]>: sequence of [id, role, content]
    isLoading,           \* useState(false)
    error,               \* useState<string | null>: <<>> is null, <<s>> is the string s
    abortControllerRef,  \* useRef<AbortController | null>: 0 is null, t is turn t's controller
    aborted,             \* aborted[t]: signal.aborted of turn t's controller
    tasks,               \* tasks[t]: the handleSubmit invocation of turn t
    nturns,              \* number of accepted submits so far
    nresets,             \* number of resets so far
    lastCall,            \* the operation or task step that produced this state
    wire,                \* text the server has still to deliver (split-stream runs)
    dialect              \* which revision of processSSEData the component has

vars == <<messages, isLoading, error, abortControllerRef, aborted, tasks, nturns,
          nresets, lastCall, wire, dialect>>

\* ------------------------------------------------------------------ bounds

\* accepted submits, resets, chunks read in all (runs of Spec), and cuts of
\* the framed stream (runs of SpecSplit)
MaxTurns == 2
MaxResets == 2
MaxReads == 2
MaxCuts == 2
MaxLines == 2

Turns == 1..MaxTurns

\* ------------------------------------------------------------------ text

WhiteSpace == {" ", "\t", "\n", "\r"}

StartsWith(s, p) == Len(s) >= Len(p) /\ SubSeq(s, 1, Len(p)) = p

IsPrefix(p, s) == StartsWith(s, p)

Substring(s, n) == SubSeq(s, n + 1, Len(s))

RECURSIVE TrimStart(_)
TrimStart(s) ==
    IF s # <<>> /\ Head(s) \in WhiteSpace THEN TrimStart(Tail(s)) ELSE s

RECURSIVE TrimEnd(_)
TrimEnd(s) ==
    IF s # <<>> /\ s[Len(s)] \in WhiteSpace
    THEN TrimEnd(SubSeq(s, 1, Len(s) - 1)) ELSE s

Trim(s) == TrimEnd(TrimStart(s))

EndsWith(s, p) == Len(s) >= Len(p) /\ SubSeq(s, Len(s) - Len(p) + 1, Len(s)) = p

\* p occurs in s at position k (1-based)
OccursAt(s, p, k) ==
    k >= 1 /\ k + Len(p) - 1 <= Len(s) /\ SubSeq(s, k, k + Len(p) - 1) = p

\* String.prototype.indexOf(p, from): the first position >= from where p
\* occurs, 0 when there is none
FindFrom(s, p, from) ==
    IF \E k \in from..Len(s) : OccursAt(s, p, k)
    THEN CHOOSE k \in from..Len(s) :
            OccursAt(s, p, k) /\ \A j \in from..(k - 1) : ~OccursAt(s, p, j)
    ELSE 0

Includes(s, p) == FindFrom(s, p, 1) # 0

\* String.prototype.lastIndexOf(p), 0 when there is none
LastFind(s, p) ==
    IF \E k \in 1..Len(s) : OccursAt(s, p, k)
    THEN CHOOSE k \in 1..Len(s) :
            OccursAt(s, p, k) /\ \A j \in (k + 1)..Len(s) : ~OccursAt(s, p, j)
    ELSE 0

\* String.prototype.split(sep) for a separator that is not empty
RECURSIVE SplitOn(_, _)
SplitOn(s, sep) ==
    LET i == FindFrom(s, sep, 1) IN
    IF i = 0 THEN <<s>>
    ELSE <<SubSeq(s, 1, i - 1)>> \o SplitOn(SubSeq(s, i + Len(sep), Len(s)), sep)

\* query.trim() is the empty string
IsBlank(s) == \A i \in 1..Len(s) : s[i] \in WhiteSpace

RECURSIVE SplitLines(_)
SplitLines(s) ==
    IF \E i \in 1..Len(s) : s[i] = "\n"
    THEN LET i == CHOOSE j \in 1..Len(s) :
                      s[j] = "\n" /\ \A k \in 1..(j - 1) : s[k] # "\n"
         IN  <<SubSeq(s, 1, i - 1)>> \o SplitLines(SubSeq(s, i + 1, Len(s)))
    ELSE <<s>>

\* Array.prototype.indexOf: the first position holding an equal element
IndexOf(lines, line) ==
    CHOOSE i \in 1..Len(lines) :
        lines[i] = line /\ \A k \in 1..(i - 1) : lines[k] # line

DataPrefix == <<"d", "a", "t", "a", ":">>
ErrorEventPrefix == <<"e", "v", "e", "n", "t", ":", " ", "e", "r", "r", "o", "r">>
EndEventPrefix == <<"e", "v", "e", "n", "t", ":", " ", "e", "n", "d">>
DoneMarkerLower == <<"[", "d", "o", "n", "e", "]">>
DoneMarker == <<"[", "D", "O", "N", "E", "]">>
EndToken == <<"<", "e", "n", "d", ">">>
Sentinel == <<"<", "/", "c", "h", "a", "n", "k", ">">>
IgnoreMarker1 == <<"#", "#">>
IgnoreMarker2 == <<"*", "*">>
UnknownError == <<"U", "n", "k", "n", "o", "w", "n", " ", "e", "r", "r", "o", "r">>
ErrorFromPrefix == <<"E", "r", "r", "o", "r", " ", "f", "r", "o", "m", " ", "S", "e",
                     "n", "p", "a", "i", "C", "h", "a", "t", ":", " ">>

\* the annotation of an error event, line 645; a character outside ASCII is
\* written as one element naming its code point ("U30A8" is one character)
ErrorAnnotation(errorData) ==
    <<"\n", "\n", "[", "U30A8", "U30E9", "U30FC", ":", " ">> \o errorData \o <<"]">>

\* the annotation of a failed request or read, line 754
FailureAnnotation(errorMessage) ==
    <<"[", "U30A8", "U30E9", "U30FC", "U304C", "U767A", "U751F", "U3057", "U307E",
      "U3057", "U305F", ":", " ">>
        \o errorMessage \o <<"]">>

\* ------------------------------------------------------------------ TextDecoder

\* UTF-8: the length of the sequence a lead byte starts (0: no lead byte)
SequenceLength(b) ==
    IF b < 128 THEN 1
    ELSE IF b >= 192 /\ b < 224 THEN 2
    ELSE IF b >= 224 /\ b < 240 THEN 3
    ELSE IF b >= 240 /\ b < 248 THEN 4
    ELSE 0

ContinuationByte(b) == b >= 128 /\ b < 192

\* the code point of a complete sequence
CodePoint(bs) ==
    CASE Len(bs) = 1 -> bs[1]
      [] Len(bs) = 2 -> (bs[1] - 192) * 64 + (bs[2] - 128)
      [] Len(bs) = 3 -> (bs[1] - 224) * 4096 + (bs[2] - 128) * 64 + (bs[3] - 128)
      [] Len(bs) = 4 -> (bs[1] - 240) * 262144 + (bs[2] - 128) * 4096
                            + (bs[3] - 128) * 64 + (bs[4] - 128)

\* U+FFFD, given out for bytes that form no character
ReplacementCodePoint == 65533

\* The decoder reads bytes from position i on, holding the bytes pending of
\* an unfinished sequence; out is what it has given out.
RECURSIVE DecodeLoop(_, _, _, _)
DecodeLoop(pending, bytes, i, out) ==
    IF i > Len(bytes) THEN [text |-> out, pending |-> pending]
    ELSE LET b == bytes[i] IN
        IF pending = <<>>
        THEN IF SequenceLength(b) = 1
             THEN DecodeLoop(<<>>, bytes, i + 1, Append(out, b))
             ELSE IF SequenceLength(b) = 0
             THEN DecodeLoop(<<>>, bytes, i + 1, Append(out, ReplacementCodePoint))
             ELSE DecodeLoop(<<b>>, bytes, i + 1, out)
        ELSE IF ContinuationByte(b)
             THEN LET bs == Append(pending, b) IN
                  IF Len(bs) = SequenceLength(bs[1])
                  THEN DecodeLoop(<<>>, bytes, i + 1, Append(out, CodePoint(bs)))
                  ELSE DecodeLoop(bs, bytes, i + 1, out)
             ELSE DecodeLoop(<<>>, bytes, i, Append(out, ReplacementCodePoint))

\* decoder.decode(value): an unfinished sequence at the end of value is given
\* out as U+FFFD and nothing is held back
DecodeNoStream(pending, value) ==
    LET r == DecodeLoop(pending, value, 1, <<>>) IN
    IF r.pending = <<>> THEN r
    ELSE [text |-> Append(r.text, ReplacementCodePoint), pending |-> <<>>]

\* decoder.decode(value, { stream: true })
Decode(pending, value) == DecodeLoop(pending, value, 1, <<>>)

\* the character of a code point, as an element of a text
CharOf(cp) ==
    CASE cp = 10 -> "\n"
      [] cp = 32 -> " "
      [] cp = 58 -> ":"
      [] cp = 97 -> "a"
      [] cp = 100 -> "d"
      [] cp = 116 -> "t"
      [] cp = 233 -> "U00E9"
      [] cp = 12456 -> "U30A8"
      [] cp = 128512 -> "U1F600"
      [] OTHER -> "UFFFD"

TextOf(cps) == [k \in 1..Len(cps) |-> CharOf(cps[k])]

\* ------------------------------------------------------------------ processSSEData

\* line.substring(5)
DataPartUntrimmed(line) == Substring(line, 5)

\* line.substring(5).trimStart()
DataPart(line) == TrimStart(Substring(line, 5))

\* the search for the message of an error line: the first data: line after
\* position lines.indexOf(line)
RECURSIVE FindErrorData(_, _)
FindErrorData(lines, i) ==
    IF i > Len(lines) THEN UnknownError
    ELSE IF StartsWith(lines[i], DataPrefix) THEN DataPart(lines[i])
    ELSE FindErrorData(lines, i + 1)

ErrorDataOf(lines, line) == FindErrorData(lines, IndexOf(lines, line) + 1)

\* The for loop over the lines of one chunk, from line i on.  acc holds
\*   processedContent  the local of that name
\*   annotated         the text the error branch has appended to the Message
\*   err               the last value given to setError (<<>>: none)
\*   doneMarkers       how often the [DONE] branch ran
\*   errorEvents       how often the error branch ran
RECURSIVE ParseLines(_, _, _)
ParseLines(lines, i, acc) ==
    IF i > Len(lines) THEN acc
    ELSE LET line == lines[i] IN
        IF StartsWith(line, DataPrefix)
        THEN LET dataPart == DataPart(line) IN
             IF dataPart = DoneMarker
             THEN ParseLines(lines, i + 1,
                             [acc EXCEPT !.doneMarkers = @ + 1])
             ELSE ParseLines(lines, i + 1,
                             [acc EXCEPT !.processedContent = @ \o dataPart])
        ELSE IF StartsWith(line, ErrorEventPrefix)
        THEN LET errorData == ErrorDataOf(lines, line) IN
             ParseLines(lines, i + 1,
                        [acc EXCEPT !.err = <<ErrorFromPrefix \o errorData>>,
                                    !.annotated = @ \o ErrorAnnotation(errorData),
                                    !.errorEvents = @ + 1])
        ELSE IF StartsWith(line, EndEventPrefix)
        THEN ParseLines(lines, i + 1, acc)
        ELSE ParseLines(lines, i + 1, acc)

ParseChunk(chunk) ==
    ParseLines(SplitLines(chunk), 1,
               [processedContent |-> <<>>, annotated |-> <<>>, err |-> <<>>,
                doneMarkers |-> 0, errorEvents |-> 0])

\* --- the revision that splits the chunk on the sentinel (lines 147-192)

\* lines.find(l => l.startsWith('data:'))?.substring(5).trim() ?? 'Unknown error'
RECURSIVE FindFirstData(_, _)
FindFirstData(lines, i) ==
    IF i > Len(lines) THEN UnknownError
    ELSE IF StartsWith(lines[i], DataPrefix) THEN Trim(Substring(lines[i], 5))
    ELSE FindFirstData(lines, i + 1)

RECURSIVE ParseChankLines(_, _, _)
ParseChankLines(lines, i, acc) ==
    IF i > Len(lines) THEN acc
    ELSE LET line == lines[i] IN
        IF StartsWith(line, DataPrefix)
        THEN LET dataPart == DataPart(line) IN
             IF dataPart = DoneMarker
             THEN ParseChankLines(lines, i + 1,
                                  [acc EXCEPT !.doneMarkers = @ + 1])
             ELSE ParseChankLines(lines, i + 1,
                                  [acc EXCEPT !.processedContent = @ \o dataPart])
        ELSE IF StartsWith(line, ErrorEventPrefix)
        THEN LET errorData == FindFirstData(lines, 1) IN
             ParseChankLines(lines, i + 1,
                        [acc EXCEPT !.err = <<ErrorFromPrefix \o errorData>>,
                                    !.annotated = @ \o ErrorAnnotation(errorData),
                                    !.errorEvents = @ + 1])
        ELSE ParseChankLines(lines, i + 1, acc)

ParseChank(chunk) ==
    ParseChankLines(SplitOn(chunk, Sentinel), 1,
               [processedContent |-> <<>>, annotated |-> <<>>, err |-> <<>>,
                doneMarkers |-> 0, errorEvents |-> 0])

\* --- the revision for concatenated data: segments (part_001, lines 275-383)

\* \s* of the regular expression: the first position from j on that holds no
\* white space (Len(chunk) + 1 when there is none)
RECURSIVE SkipSpace(_, _)
SkipSpace(chunk, j) ==
    IF j <= Len(chunk) /\ chunk[j] \in WhiteSpace THEN SkipSpace(chunk, j + 1) ELSE j

\* ([\s\S]*?)(?=data:|<end>|$): the first position from j on where data: or
\* <end> starts, or the end of the chunk
SegmentEnd(chunk, j) ==
    LET stops == {k \in j..Len(chunk) :
                    OccursAt(chunk, DataPrefix, k) \/ OccursAt(chunk, EndToken, k)}
    IN  IF stops = {} THEN Len(chunk) + 1
        ELSE CHOOSE k \in stops : \A m \in stops : k <= m

\* lines 293-295
StripSentinel(extractedPart) ==
    IF EndsWith(TrimEnd(extractedPart), Sentinel)
    THEN SubSeq(extractedPart, 1, LastFind(extractedPart, Sentinel) - 1)
    ELSE extractedPart

\* The while loop over the matches of the regular expression, the search
\* starting at lastIndex.  acc holds the three locals of the function.
RECURSIVE ConcatLoop(_, _, _)
ConcatLoop(chunk, lastIndex, acc) ==
    LET i == FindFrom(chunk, DataPrefix, lastIndex) IN
    IF i = 0 THEN acc
    ELSE LET j == SkipSpace(chunk, i + Len(DataPrefix))
             k == SegmentEnd(chunk, j)
             extractedPart == StripSentinel(SubSeq(chunk, j, k - 1))
             dataPart == Trim(extractedPart)
         IN  IF Includes(extractedPart, IgnoreMarker1)
                    \/ Includes(extractedPart, IgnoreMarker2)
             THEN [acc EXCEPT !.ignoreMarkerFoundInChunk = TRUE]
             ELSE IF dataPart = DoneMarker \/ dataPart = EndToken
             THEN [acc EXCEPT !.streamEnded = TRUE]
             ELSE ConcatLoop(chunk, k,
                             [acc EXCEPT !.processedContent = @ \o dataPart])

\* lines 345-351: <end> at the end of the chunk
StandaloneEnd(chunk, acc) ==
    /\ ~acc.streamEnded /\ ~acc.ignoreMarkerFoundInChunk
    /\ Includes(chunk, EndToken)
    /\ \/ EndsWith(TrimEnd(chunk), EndToken)
       \/ EndsWith(TrimEnd(chunk), EndToken \o Sentinel)

ParseConcat(chunk) ==
    LET acc == ConcatLoop(chunk, 1,
                   [processedContent |-> <<>>, streamEnded |-> FALSE,
                    ignoreMarkerFoundInChunk |-> FALSE])
        streamEnded == acc.streamEnded \/ StandaloneEnd(chunk, acc)
    IN  [processedContent |-> acc.processedContent, annotated |-> <<>>,
         err |-> <<>>, doneMarkers |-> IF streamEnded THEN 1 ELSE 0,
         errorEvents |-> 0]

\* --- the revision in use

Dialects == {"chank", "lines", "concat"}

Parse(chunk) ==
    CASE dialect = "chank" -> ParseChank(chunk)
      [] dialect = "lines" -> ParseChunk(chunk)
      [] dialect = "concat" -> ParseConcat(chunk)

\* What one call of processSSEData appends to the Message with the given id:
\* the error annotations as the loop meets them, then processedContent.
AppendedBy(chunk) ==
    LET r == Parse(chunk) IN r.annotated \o r.processedContent

\* prev.map(msg => msg.id === id ? {...msg, content: f(msg.content)} : msg)
AppendTo(msgs, id, text) ==
    [k \in 1..Len(msgs) |->
        IF msgs[k].id = id THEN [msgs[k] EXCEPT !.content = @ \o text] ELSE msgs[k]]

\* ------------------------------------------------------------------ inputs

\* queries typed by the user: empty, whitespace only, a question
Queries == {<<>>, <<" ">>, <<"q">>}

\* chunks the body stream delivers, one per reader.read()
ChunkHello == <<"d", "a", "t", "a", ":", " ", "H", "i", "\n">>
ChunkError == <<"e", "v", "e", "n", "t", ":", " ", "e", "r", "r", "o", "r", "\n",
                "d", "a", "t", "a", ":", " ", "r", "a", "t", "e", " ",
                "l", "i", "m", "i", "t", "e", "d", "\n">>
Chunks == {ChunkHello, ChunkError}

RateLimited == <<"r", "a", "t", "e", " ", "l", "i", "m", "i", "t", "e", "d">>

\* message of a rejected fetch or read (a network failure)
NetworkFailure == <<"n", "e", "t">>
\* `API Error: ${response.status} ${response.statusText}` of a 500 response
StatusMessage == <<"A", "P", "I", " ", "E", "r", "r", "o", "r", ":", " ",
                   "5", "0", "0", " ", "E">>
BodyIsNull == <<"R", "e", "s", "p", "o", "n", "s", "e", " ", "b", "o", "d", "y", " ",
                "i", "s", " ", "n", "u", "l", "l">>
\* what errorBody becomes for a JSON body {"error": "bad"}, {"message": "msg"}
\* and {} (JSON.stringify)
JsonErrorField == <<"b", "a", "d">>
JsonMessageField == <<"m", "s", "g">>
JsonOther == <<"{", "}">>
\* the text of the body that is no JSON
RawBodyText == <<"o", "o", "p", "s">>
\* bodies of the non-success responses of a run: a JSON object with an error
\* field, and text that is no JSON
ErrorBodies == {"json_error", "text"}

\* chunks of the runs that compare the revisions of processSSEData
ChunkDone == <<"d", "a", "t", "a", ":", " ", "[", "D", "O", "N", "E", "]", "\n">>
ChunkEnd == <<"<", "e", "n", "d", ">", "\n">>
ChunkHiEnd == <<"d", "a", "t", "a", ":", " ", "H", "i", "<", "e", "n", "d", ">", "\n">>
ChunkSentinel == <<"d", "a", "t", "a", ":", " ", "f", "o", "o", "<", "/", "c", "h", "a", "n", "k", ">", "b", "a", "r", "\n">>
ChunkTrailingSentinel == <<"d", "a", "t", "a", ":", " ", "f", "o", "o", "<", "/", "c", "h", "a", "n", "k", ">", "\n">>
ChunkDoneThenData == <<"d", "a", "t", "a", ":", " ", "[", "D", "O", "N", "E", "]", "\n", "d", "a", "t", "a", ":", " ", "H", "i", "\n">>
ChunkTwoErrors == <<"e", "v", "e", "n", "t", ":", " ", "e", "r", "r", "o", "r", "\n", "d", "a", "t", "a", ":", " ", "a", "\n", "e", "v", "e", "n", "t", ":", " ", "e", "r", "r", "o", "r", "\n", "d", "a", "t", "a", ":", " ", "b", "\n">>
ChunkErrorAfterData == <<"d", "a", "t", "a", ":", " ", "x", "<", "/", "c", "h", "a", "n", "k", ">", "e", "v", "e", "n", "t", ":", " ", "e", "r", "r", "o", "r", "<", "/", "c", "h", "a", "n", "k", ">", "d", "a", "t", "a", ":", " ", "y">>
ChunkIgnoreHash == <<"d", "a", "t", "a", ":", " ", "a", "d", "a", "t", "a", ":", " ", "b", "#", "#", "c", "d", "a", "t", "a", ":", " ", "e">>
ChunkIgnoreStar == <<"d", "a", "t", "a", ":", " ", "b", "*", "*", "c">>
ChunkDataThenError == <<"d", "a", "t", "a", ":", " ", "H", "i", "\n", "e", "v", "e", "n", "t", ":", " ", "e", "r", "r", "o", "r", "\n", "d", "a", "t", "a", ":", " ", "x", "\n">>
DialectChunks == {ChunkHello, ChunkDone, ChunkEnd, ChunkHiEnd, ChunkSentinel,
                  ChunkTrailingSentinel, ChunkDoneThenData, ChunkError,
                  ChunkTwoErrors, ChunkErrorAfterData, ChunkIgnoreHash,
                  ChunkIgnoreStar, ChunkDataThenError}
Hi == <<"H", "i">>
Foo == <<"f", "o", "o">>

\* lines of the runs that deliver one chunk of complete lines
LineHi == <<"d", "a", "t", "a", ":", " ", "H", "i">>
LineYo == <<"d", "a", "t", "a", ":", "y", "o", " ">>
LineDone == <<"d", "a", "t", "a", ":", " ", "[", "D", "O", "N", "E", "]">>
LineBlank == <<>>
LineComment == <<":", " ", "k">>
LineEventEnd == <<"e", "v", "e", "n", "t", ":", " ", "e", "n", "d">>
LineEventOther == <<"e", "v", "e", "n", "t", ":", " ", "p", "i", "n", "g">>
LineId == <<"i", "d", ":", " ", "1">>
LineDataEmpty == <<"d", "a", "t", "a", ":", " ">>
LineIndented == <<" ", "d", "a", "t", "a", ":", " ", "n", "o">>
FramingLines == {LineHi, LineYo, LineDone, LineBlank, LineComment, LineEventEnd,
                 LineEventOther, LineId, LineDataEmpty, LineIndented}

\* the bytes of "data: " and of the characters U+30A8, U+00E9, U+1F600 and a
\* line feed, and the code points they stand for
ByteStream == <<100, 97, 116, 97, 58, 32, 227, 130, 168, 195, 169,
                240, 159, 152, 128, 10>>
ByteStreamCodePoints == <<100, 97, 116, 97, 58, 32, 12456, 233, 128512, 10>>

\* the framed stream of the split runs and the content it stands for
FramedStream ==
    <<"d", "a", "t", "a", ":", " ", "H", "e", "l", "l", "o", "\n", "\n",
      "d", "a", "t", "a", ":", " ", "W", "o", "r", "l", "d", "\n", "\n",
      "d", "a", "t", "a", ":", " ", "[", "D", "O", "N", "E", "]", "\n", "\n">>
HelloWorld == <<"H", "e", "l", "l", "o", "W", "o", "r", "l", "d">>

\* ------------------------------------------------------------------ state

UserId(t) == <<"user", t>>
AssistantId(t) == <<"assistant", t>>

\* tasks[t]: where the invocation is suspended (pc) and what processSSEData
\* has done for the turn: chunks read, content appended, an error event
\* handled, [DONE] branches run; the bytes its TextDecoder holds back
\* (pending) and the code points it has given out so far (decoded)
NoTask == [pc |-> "none", reads |-> 0, appended |-> FALSE,
           errored |-> FALSE, doneMarkers |-> 0,
           pending |-> <<>>, decoded |-> <<>>]

\* lastCall: the operation (op), the turn it ran for, its argument
Call(op, t, arg) == [op |-> op, turn |-> t, arg |-> arg]

Init ==
    /\ messages = <<>>
    /\ isLoading = FALSE
    /\ error = <<>>
    /\ abortControllerRef = 0
    /\ aborted = [t \in Turns |-> FALSE]
    /\ tasks = [t \in Turns |-> NoTask]
    /\ nturns = 0
    /\ nresets = 0
    /\ lastCall = Call("init", 0, <<>>)
    /\ wire = <<>>
    /\ dialect = "lines"

\* abortControllerRef.current?.abort()
AbortCurrent ==
    [t \in Turns |-> aborted[t] \/ t = abortControllerRef]

\* ------------------------------------------------------------------ resetChat

\* a reset that keeps the conversation
ResetMessagesKept == messages

\* setMessages([])
ResetMessages == <<>>

resetChat ==
    /\ nresets < MaxResets
    /\ nresets' = nresets + 1
    /\ aborted' = AbortCurrent
    /\ messages' = ResetMessages
    /\ isLoading' = FALSE
    /\ error' = <<>>
    /\ lastCall' = Call("reset", 0, <<>>)
    /\ UNCHANGED <<abortControllerRef, tasks, nturns, wire, dialect>>

\* ------------------------------------------------------------------ handleSubmit

\* a guard that forgets the loading flag
SubmitRefusedBlankOnly(query) == IsBlank(query)

\* if (!query.trim() || isLoading) return;
SubmitRefused(query) == IsBlank(query) \/ isLoading

\* the two Messages appended in the wrong order
\* the new Messages put in front of the conversation
SubmitMessagesPrepended(prev, query, t) ==
    <<[id |-> UserId(t), role |-> "user", content |-> query],
      [id |-> AssistantId(t), role |-> "assistant", content |-> <<>>]>> \o prev

\* only the assistant Message is added
SubmitMessagesNoUser(prev, query, t) ==
    prev \o <<[id |-> AssistantId(t), role |-> "assistant", content |-> <<>>]>>

SubmitMessagesSwapped(prev, query, t) ==
    prev \o <<[id |-> AssistantId(t), role |-> "assistant", content |-> <<>>],
              [id |-> UserId(t), role |-> "user", content |-> query]>>

\* [...prev, userMessage, {id: assistantMessageId, role: 'assistant', content: ''}]
SubmitMessages(prev, query, t) ==
    prev \o <<[id |-> UserId(t), role |-> "user", content |-> query],
              [id |-> AssistantId(t), role |-> "assistant", content |-> <<>>]>>

\* The synchronous part of handleSubmit, up to the await of fetch.
handleSubmit(query) ==
    IF SubmitRefused(query)
    THEN /\ lastCall' = Call("refused", 0, query)
         /\ UNCHANGED <<messages, isLoading, error, abortControllerRef, aborted,
                        tasks, nturns, nresets, wire, dialect>>
    ELSE /\ nturns < MaxTurns
         /\ LET t == nturns + 1 IN
            /\ nturns' = t
            /\ isLoading' = TRUE
            /\ error' = <<>>
            /\ aborted' = AbortCurrent
            /\ abortControllerRef' = t
            /\ messages' = SubmitMessages(messages, query, t)
            /\ tasks' = [tasks EXCEPT ![t] = [NoTask EXCEPT !.pc = "fetch"]]
            /\ lastCall' = Call("submit", t, query)
         /\ UNCHANGED <<nresets, wire, dialect>>

Submit == \E query \in Queries : handleSubmit(query)

\* ------------------------------------------------------------------ task steps

\* abortControllerRef.current?.signal.aborted, the test at the top of the read loop
LoopTopAborted(ref) == ref # 0 /\ aborted[ref]

\* finally: if (abortControllerRef.current && !...signal.aborted) ...current = null
FinallyRef(ref) == IF ref # 0 /\ ~aborted[ref] THEN 0 ELSE ref

\* prev.filter(msg => msg.id !== assistantMessageId)
RemoveMessage(msgs, id) == SelectSeq(msgs, LAMBDA m : m.id # id)

\* the catch branch of a failure: content: `[... ${errorMessage}]`
FailureContent(content, errorMessage) == FailureAnnotation(errorMessage)

\* MarkFailed without the test of msg.id
MarkFailedAll(msgs, id, errorMessage) ==
    [k \in 1..Len(msgs) |->
        [msgs[k] EXCEPT !.content = FailureContent(@, errorMessage)]]

MarkFailed(msgs, id, errorMessage) ==
    [k \in 1..Len(msgs) |->
        IF msgs[k].id = id
        THEN [msgs[k] EXCEPT !.content = FailureContent(@, errorMessage)]
        ELSE msgs[k]]

Finish(t) == [tasks EXCEPT ![t].pc = "done"]

\* catch (err) with err.name === 'AbortError', then finally
CatchAbort(t, op) ==
    /\ error' = <<>>
    /\ isLoading' = FALSE
    /\ abortControllerRef' = FinallyRef(abortControllerRef)
    /\ tasks' = Finish(t)
    /\ lastCall' = Call(op, t, <<>>)
    /\ UNCHANGED <<messages, aborted, nturns, nresets, wire, dialect>>

\* catch (err) with any other error, then finally
\* CatchFailureOf without setIsLoading(false)
CatchFailureKeepsLoading(t, op, arg, errorMessage) ==
    /\ error' = <<errorMessage>>
    /\ messages' = MarkFailed(messages, AssistantId(t), errorMessage)
    /\ abortControllerRef' = FinallyRef(abortControllerRef)
    /\ tasks' = Finish(t)
    /\ lastCall' = Call(op, t, arg)
    /\ UNCHANGED <<isLoading, aborted, nturns, nresets, wire, dialect>>

CatchFailureOf(t, op, arg, errorMessage) ==
    /\ error' = <<errorMessage>>
    /\ messages' = MarkFailed(messages, AssistantId(t), errorMessage)
    /\ isLoading' = FALSE
    /\ abortControllerRef' = FinallyRef(abortControllerRef)
    /\ tasks' = Finish(t)
    /\ lastCall' = Call(op, t, arg)
    /\ UNCHANGED <<aborted, nturns, nresets, wire, dialect>>

CatchFailure(t, op, errorMessage) == CatchFailureOf(t, op, <<>>, errorMessage)

\* The top of the while loop, reached with the Messages msgs and the tasks tk:
\* either the slot's token is aborted (remove the Message, break, finally) or
\* the task suspends in reader.read().
LoopTop(t, msgs, tk, op, arg) ==
    IF LoopTopAborted(abortControllerRef)
    THEN /\ messages' = RemoveMessage(msgs, AssistantId(t))
         /\ isLoading' = FALSE
         /\ abortControllerRef' = FinallyRef(abortControllerRef)
         /\ tasks' = [tk EXCEPT ![t].pc = "done"]
         /\ lastCall' = Call("cancelled", t, arg)
    ELSE /\ messages' = msgs
         /\ tasks' = [tk EXCEPT ![t].pc = "read"]
         /\ lastCall' = Call(op, t, arg)
         /\ UNCHANGED <<isLoading, abortControllerRef>>

\* fetch rejects because the signal it was given is aborted
FetchAborted(t) ==
    /\ tasks[t].pc = "fetch" /\ aborted[t]
    /\ CatchAbort(t, "fetchAborted")

\* fetch rejects with a network failure
FetchFails(t) ==
    /\ tasks[t].pc = "fetch" /\ ~aborted[t]
    /\ CatchFailure(t, "fetchFails", NetworkFailure)

\* fetch resolves with !response.ok: the task awaits response.json()
FetchNotOk(t) ==
    /\ tasks[t].pc = "fetch" /\ ~aborted[t]
    /\ tasks' = [tasks EXCEPT ![t].pc = "errbody"]
    /\ lastCall' = Call("fetchNotOk", t, <<>>)
    /\ UNCHANGED <<messages, isLoading, error, abortControllerRef, aborted, nturns,
                   nresets, wire, dialect>>

\* errorBody of lines 704-715.  response.json() consumes the body, so after it
\* has rejected response.text() rejects too and the status message stays; an
\* abort while the body is read rejects both in the same way.
ErrorBodyOf(body, isAborted) ==
    IF isAborted THEN StatusMessage
    ELSE IF body = "json_error" THEN JsonErrorField
    ELSE IF body = "json_message" THEN JsonMessageField
    ELSE IF body = "json_other" THEN JsonOther
    ELSE StatusMessage

\* throw new Error(errorBody)
ErrorBodyRead(t) ==
    /\ tasks[t].pc = "errbody"
    /\ \E body \in ErrorBodies :
          CatchFailureOf(t, "errorBodyRead", <<body>>, ErrorBodyOf(body, aborted[t]))

\* fetch resolves with response.ok and no body
FetchBodyNull(t) ==
    /\ tasks[t].pc = "fetch" /\ ~aborted[t]
    /\ CatchFailure(t, "fetchBodyNull", BodyIsNull)

\* fetch resolves with response.ok and a body: getReader, then the loop
FetchOk(t) ==
    /\ tasks[t].pc = "fetch" /\ ~aborted[t]
    /\ LoopTop(t, messages, tasks, "fetchOk", <<>>)
    /\ UNCHANGED <<error, aborted, nturns, nresets, wire, dialect>>

\* reader.read() rejects because the request was aborted
ReadAborted(t) ==
    /\ tasks[t].pc = "read" /\ aborted[t]
    /\ CatchAbort(t, "readAborted")

\* reader.read() rejects with a network failure
ReadFails(t) ==
    /\ tasks[t].pc = "read" /\ ~aborted[t]
    /\ CatchFailure(t, "readFails", NetworkFailure)

\* ReadDone without setIsLoading(false)
ReadDoneKeepsLoading(t) ==
    /\ tasks[t].pc = "read" /\ ~aborted[t] /\ wire = <<>>
    /\ abortControllerRef' = 0
    /\ tasks' = Finish(t)
    /\ lastCall' = Call("readDone", t, <<>>)
    /\ UNCHANGED <<messages, isLoading, error, aborted, nturns, nresets, wire, dialect>>

\* reader.read() resolves with done: true
ReadDone(t) ==
    /\ tasks[t].pc = "read" /\ ~aborted[t] /\ wire = <<>>
    /\ isLoading' = FALSE
    /\ abortControllerRef' = 0
    /\ tasks' = Finish(t)
    /\ lastCall' = Call("readDone", t, <<>>)
    /\ UNCHANGED <<messages, error, aborted, nturns, nresets, wire, dialect>>

\* processSSEData(chunk, assistantMessageId): the state it leaves
processSSEData(chunk, assistantMessageId) ==
    LET r == Parse(chunk) IN
    [messages |-> AppendTo(messages, assistantMessageId, AppendedBy(chunk)),
     error |-> IF r.errorEvents > 0 THEN r.err ELSE error]

\* reader.read() resolves with a chunk: decode, processSSEData, loop
DeliverWith(t, chunk, op, base) ==
    LET r == Parse(chunk)
        after == processSSEData(chunk, AssistantId(t))
        tk == [base EXCEPT ![t].reads = @ + 1,
                            ![t].appended = @ \/ r.processedContent # <<>>,
                            ![t].errored = @ \/ r.errorEvents > 0,
                            ![t].doneMarkers = @ + r.doneMarkers]
    IN  /\ error' = after.error
        /\ LoopTop(t, after.messages, tk, op, chunk)
        /\ UNCHANGED <<aborted, nturns, nresets>>

Deliver(t, chunk, op) == DeliverWith(t, chunk, op, tasks)

RECURSIVE SumReads(_)
SumReads(t) == IF t = 0 THEN 0 ELSE tasks[t].reads + SumReads(t - 1)
TotalReads == SumReads(MaxTurns)

ReadChunk(t) ==
    /\ tasks[t].pc = "read" /\ ~aborted[t] /\ wire = <<>>
    /\ TotalReads < MaxReads
    /\ \E chunk \in Chunks : Deliver(t, chunk, "readChunk")
    /\ UNCHANGED <<wire, dialect>>

Task ==
    \E t \in Turns :
        \/ FetchAborted(t)
        \/ FetchFails(t)
        \/ FetchNotOk(t)
        \/ ErrorBodyRead(t)
        \/ FetchBodyNull(t)
        \/ FetchOk(t)
        \/ ReadAborted(t)
        \/ ReadFails(t)
        \/ ReadDone(t)
        \/ ReadChunk(t)

Next == Submit \/ resetChat \/ Task

Spec == Init /\ [][Next]_vars

\* A settled promise has its continuation run: the steps of the tasks, each
\* the outcome of a fetch, of a body read or of a cancellation, are taken.
SpecLive == Spec /\ WF_vars(Task)

\* ------------------------------------------------------------------ split streams

\* The state after handleSubmit("q") and a fetch that resolved with a body: the
\* task of turn 1 is suspended in its first reader.read(), and the server has
\* FramedStream to deliver.
InitSplit ==
    /\ messages = SubmitMessages(<<>>, <<"q">>, 1)
    /\ isLoading = TRUE
    /\ error = <<>>
    /\ abortControllerRef = 1
    /\ aborted = [t \in Turns |-> FALSE]
    /\ tasks = [t \in Turns |-> IF t = 1 THEN [NoTask EXCEPT !.pc = "read"] ELSE NoTask]
    /\ nturns = 1
    /\ nresets = 0
    /\ lastCall = Call("fetchOk", 1, <<>>)
    /\ wire = FramedStream
    /\ dialect = "lines"

\* reader.read() resolves with the next k characters of the stream; after
\* MaxCuts cuts the rest arrives as one chunk
ReadSplit(t) ==
    /\ tasks[t].pc = "read" /\ ~aborted[t] /\ wire # <<>>
    /\ \E k \in 1..Len(wire) :
          /\ tasks[t].reads < MaxCuts \/ k = Len(wire)
          /\ Deliver(t, SubSeq(wire, 1, k), "readChunk")
          /\ wire' = SubSeq(wire, k + 1, Len(wire))
          /\ UNCHANGED dialect

SplitRead == \E t \in Turns : ReadSplit(t)

SplitDone == \E t \in Turns : ReadDone(t)

NextSplit == SplitRead \/ SplitDone

SpecSplit == InitSplit /\ [][NextSplit]_vars

\* ------------------------------------------------------------------ revisions

\* As InitSplit, for a component with any of the revisions of processSSEData
\* and a server that delivers chunks of DialectChunks.
InitDialect ==
    /\ messages = SubmitMessages(<<>>, <<"q">>, 1)
    /\ isLoading = TRUE
    /\ error = <<>>
    /\ abortControllerRef = 1
    /\ aborted = [t \in Turns |-> FALSE]
    /\ tasks = [t \in Turns |-> IF t = 1 THEN [NoTask EXCEPT !.pc = "read"] ELSE NoTask]
    /\ nturns = 1
    /\ nresets = 0
    /\ lastCall = Call("fetchOk", 1, <<>>)
    /\ wire = <<>>
    /\ dialect \in Dialects

ReadDialect(t) ==
    /\ tasks[t].pc = "read" /\ ~aborted[t] /\ wire = <<>>
    /\ tasks[t].reads < MaxReads
    /\ \E chunk \in DialectChunks : Deliver(t, chunk, "readChunk")
    /\ UNCHANGED <<wire, dialect>>

DialectRead == \E t \in Turns : ReadDialect(t)

DialectDone == \E t \in Turns : ReadDone(t)

NextDialect == DialectRead \/ DialectDone

SpecDialect == InitDialect /\ [][NextDialect]_vars

\* ------------------------------------------------------------------ complete lines

\* the chunk made of the lines ls, each ended by a line feed
RECURSIVE JoinLines(_)
JoinLines(ls) ==
    IF ls = <<>> THEN <<>> ELSE Head(ls) \o <<"\n">> \o JoinLines(Tail(ls))

LineSeqs == UNION {[1..n -> FramingLines] : n \in 1..MaxLines}

\* the first read of the turn resolves with a chunk of complete lines
ReadLines(t) ==
    /\ tasks[t].pc = "read" /\ ~aborted[t] /\ wire = <<>>
    /\ tasks[t].reads = 0
    /\ \E ls \in LineSeqs : Deliver(t, JoinLines(ls), "readLines")
    /\ UNCHANGED <<wire, dialect>>

FramingRead == \E t \in Turns : ReadLines(t)

FramingDone == \E t \in Turns : ReadDone(t)

NextFraming == FramingRead \/ FramingDone

\* InitSplit with nothing on the wire
InitFraming ==
    /\ messages = SubmitMessages(<<>>, <<"q">>, 1)
    /\ isLoading = TRUE
    /\ error = <<>>
    /\ abortControllerRef = 1
    /\ aborted = [t \in Turns |-> FALSE]
    /\ tasks = [t \in Turns |-> IF t = 1 THEN [NoTask EXCEPT !.pc = "read"] ELSE NoTask]
    /\ nturns = 1
    /\ nresets = 0
    /\ lastCall = Call("fetchOk", 1, <<>>)
    /\ wire = <<>>
    /\ dialect = "lines"

SpecFraming == InitFraming /\ [][NextFraming]_vars

\* ------------------------------------------------------------------ late reads

\* A reader.read() that was pending when the token was cancelled resolves
\* with a chunk all the same (a body that does not follow the signal).
ReadLate(t) ==
    /\ tasks[t].pc = "read" /\ aborted[t] /\ wire = <<>>
    /\ TotalReads < MaxReads
    /\ \E chunk \in Chunks : Deliver(t, chunk, "readLate")
    /\ UNCHANGED <<wire, dialect>>

LateRead == \E t \in Turns : ReadLate(t)

NextLate == Submit \/ resetChat \/ Task \/ LateRead

SpecLate == Init /\ [][NextLate]_vars

\* ------------------------------------------------------------------ split bytes

\* As InitSplit, the server having the bytes of ByteStream to deliver.
InitBytes ==
    /\ messages = SubmitMessages(<<>>, <<"q">>, 1)
    /\ isLoading = TRUE
    /\ error = <<>>
    /\ abortControllerRef = 1
    /\ aborted = [t \in Turns |-> FALSE]
    /\ tasks = [t \in Turns |-> IF t = 1 THEN [NoTask EXCEPT !.pc = "read"] ELSE NoTask]
    /\ nturns = 1
    /\ nresets = 0
    /\ lastCall = Call("fetchOk", 1, <<>>)
    /\ wire = ByteStream
    /\ dialect = "lines"

\* reader.read() resolves with the next k bytes; decoder.decode(value,
\* {stream: true}) gives the chunk handed to processSSEData
ReadBytes(t) ==
    /\ tasks[t].pc = "read" /\ ~aborted[t] /\ wire # <<>>
    /\ \E k \in 1..Len(wire) :
          /\ tasks[t].reads < MaxCuts \/ k = Len(wire)
          /\ LET r == Decode(tasks[t].pending, SubSeq(wire, 1, k))
                 base == [tasks EXCEPT ![t].pending = r.pending,
                                       ![t].decoded = @ \o r.text]
             IN  DeliverWith(t, TextOf(r.text), "readBytes", base)
          /\ wire' = SubSeq(wire, k + 1, Len(wire))
          /\ UNCHANGED dialect

BytesRead == \E t \in Turns : ReadBytes(t)

BytesDone == \E t \in Turns : ReadDone(t)

NextBytes == BytesRead \/ BytesDone

SpecBytes == InitBytes /\ [][NextBytes]_vars


\* ------------------------------------------------------------------ properties

HasAssistant(msgs, t) == \E k \in 1..Len(msgs) : msgs[k].id = AssistantId(t)

ContentOf(msgs, t) ==
    msgs[CHOOSE k \in 1..Len(msgs) : msgs[k].id = AssistantId(t)].content

\* started, not finished, its own token not cancelled
Active(t) == tasks[t].pc \notin {"none", "done"} /\ ~aborted[t]

ActiveTurns == {t \in Turns : Active(t)}

\* the Messages other than the assistant Message of turn t, in their order
Others(msgs, t) == SelectSeq(msgs, LAMBDA m : m.id # AssistantId(t))

\* C1 (split-marker safety): however the framed stream is cut into chunks,
\* once all of it has been delivered the content of the assistant Message is
\* the content a single chunk gives, "HelloWorld", and the end marker was
\* seen exactly once.
C1_SplitMarkerSafety ==
    wire = <<>> =>
        /\ ContentOf(messages, 1) = AppendedBy(FramedStream)
        /\ ContentOf(messages, 1) = HelloWorld
        /\ tasks[1].doneMarkers = 1

\* C2 (monotonic content growth): every step leaves the content of each
\* assistant Message that stays in the conversation a prefix of its new
\* content, the error and failure annotations included.
C2_MonotonicContent ==
    [][\A t \in Turns :
          (HasAssistant(messages, t) /\ HasAssistant(messages', t))
              => IsPrefix(ContentOf(messages, t), ContentOf(messages', t))]_vars

\* C3 (single in-flight turn): at most one task is active, and the
\* cancellation-token slot holds the token of the active task.
C3_SingleInFlight ==
    /\ Cardinality(ActiveTurns) <= 1
    /\ \A t \in ActiveTurns : abortControllerRef = t

\* C4 (supersession): a submit with a non-blank query, called while the task
\* of turn a has not finished, cancels a's token, removes a's assistant
\* Message and keeps its user Message, appends the Messages of the new turn
\* and leaves that turn as the only active one.
C4_Supersession ==
    [][(lastCall'.op \in {"submit", "refused"} /\ ~IsBlank(lastCall'.arg))
          => \A a \in Turns :
                tasks[a].pc \notin {"none", "done"} =>
                    /\ aborted'[a]
                    /\ ~HasAssistant(messages', a)
                    /\ \E k \in 1..Len(messages') : messages'[k].id = UserId(a)
                    /\ nturns' = nturns + 1
                    /\ Len(messages') >= 2
                    /\ messages'[Len(messages') - 1].id = UserId(nturns')
                    /\ messages'[Len(messages')].id = AssistantId(nturns')
                    /\ ActiveTurns' = {nturns'}]_vars

\* C5 (cancellation removes the partial turn): a turn whose token was
\* cancelled before any content was appended, and whose task has finished,
\* has no assistant Message in the conversation.
C5_CancelRemovesPartialTurn ==
    \A t \in Turns :
        (aborted[t] /\ ~tasks[t].appended /\ tasks[t].pc = "done")
            => ~HasAssistant(messages, t)

\* a cancelled turn without content whose task has just finished, by the
\* rejection of its pending call
C5_Witness ==
    /\ lastCall.op \in {"fetchAborted", "readAborted"}
    /\ aborted[lastCall.turn]
    /\ ~tasks[lastCall.turn].appended
    /\ tasks[lastCall.turn].pc = "done"

\* C6 (reset): a reset cancels the token of every active turn and leaves the
\* conversation empty, the error cleared and the loading flag false; and while
\* the token of the latest turn is cancelled and no submit is accepted, every
\* step leaves them so.
C6_ResetStays ==
    [][/\ lastCall'.op = "reset" =>
            /\ \A t \in ActiveTurns : aborted'[t]
            /\ messages' = <<>> /\ error' = <<>> /\ ~isLoading'
       /\ (nturns > 0 /\ aborted[nturns] /\ nturns' = nturns) =>
            (messages' = <<>> /\ error' = <<>> /\ ~isLoading')]_vars

\* C7 (refused submit): a submit whose query is blank, or that is called while
\* the loading flag is true, changes neither the Messages, the loading flag,
\* the error, the token slot, any token nor any task.
C7_SubmitNoOp ==
    [][(/\ lastCall'.op \in {"submit", "refused"}
        /\ IsBlank(lastCall'.arg) \/ isLoading)
          => UNCHANGED <<messages, isLoading, error, abortControllerRef, aborted,
                         tasks, nturns>>]_vars

\* a non-blank submit refused while a turn is streaming
C7_Witness ==
    /\ lastCall.op = "refused" /\ ~IsBlank(lastCall.arg)
    /\ isLoading /\ ActiveTurns # {}

\* C8 (accepted submit): an accepted submit appends the user Message with the
\* query and then an empty assistant Message, leaves the earlier Messages as
\* they were, sets the loading flag, clears the error, cancels the token that
\* was in the slot and installs a fresh one that is not cancelled; the new
\* turn's task is started.
C8_AcceptedSubmit ==
    [][lastCall'.op = "submit" =>
          LET t == abortControllerRef' IN
          /\ Len(messages') = Len(messages) + 2
          /\ SubSeq(messages', 1, Len(messages)) = messages
          /\ messages'[Len(messages) + 1] =
                [id |-> UserId(t), role |-> "user", content |-> lastCall'.arg]
          /\ messages'[Len(messages) + 2] =
                [id |-> AssistantId(t), role |-> "assistant", content |-> <<>>]
          /\ isLoading' /\ error' = <<>>
          /\ abortControllerRef # 0 => aborted'[abortControllerRef]
          /\ t \in Turns /\ tasks[t].pc = "none" /\ ~aborted'[t]
          /\ tasks'[t].pc = "fetch"]_vars

\* a submit accepted when the conversation holds the Messages of an earlier,
\* finished turn
C8_Witness ==
    /\ lastCall.op = "submit" /\ lastCall.turn = 2
    /\ Len(messages) = 4 /\ tasks[1].pc = "done"

\* C9 (error short-circuit): the chunk "event: error\ndata: rate limited\n"
\* appends the error annotation with "rate limited" to the assistant Message
\* and nothing after it.
C9_ErrorShortCircuit ==
    [][\A t \in Turns :
          (/\ lastCall'.op = "readChunk" /\ lastCall'.turn = t
           /\ lastCall'.arg = ChunkError
           /\ HasAssistant(messages, t) /\ HasAssistant(messages', t))
              => ContentOf(messages', t) =
                    ContentOf(messages, t) \o ErrorAnnotation(RateLimited)]_vars

\* C10 (errored turn): once an error event has been handled the stream read is
\* over, and no chunk read afterwards changes the assistant Message or the
\* conversation-level error.
C10_ErroredIsTerminal ==
    [][\A t \in Turns :
          /\ tasks'[t].errored => tasks'[t].pc = "done"
          /\ (/\ tasks[t].errored /\ lastCall'.turn = t
              /\ lastCall'.op \in {"readChunk", "cancelled"}
              /\ HasAssistant(messages, t) /\ HasAssistant(messages', t))
                => (ContentOf(messages', t) = ContentOf(messages, t)
                    /\ error' = error)]_vars

\* the steps in which a request or a body read fails with an error that is
\* not an AbortError
FailureSteps == {"fetchFails", "errorBodyRead", "fetchBodyNull", "readFails"}

\* C11 (transport failure): when the request or a body read of a turn fails
\* with an error that is not a cancellation, the task is over, the failure
\* message is the conversation-level error, the assistant Message of the
\* turn, if it is still in the conversation, carries an annotation holding
\* that message, the loading flag is cleared and the token slot does not
\* hold the turn's token.
C11_TransportFailure ==
    [][\A t \in Turns :
          (lastCall'.turn = t /\ lastCall'.op \in FailureSteps)
              => /\ tasks'[t].pc = "done"
                 /\ error' # <<>>
                 /\ HasAssistant(messages', t)
                        => Includes(ContentOf(messages', t), error'[1])
                 /\ ~isLoading'
                 /\ abortControllerRef' # t]_vars

\* C12 (completion): when a read reports the end of the body, the task is
\* over, the loading flag is cleared, the token slot is empty, and the
\* conversation, the assistant Message of the turn included, is as it was.
C12_TransportDone ==
    [][\A t \in Turns :
          (lastCall'.turn = t /\ lastCall'.op = "readDone")
              => /\ tasks'[t].pc = "done"
                 /\ ~isLoading'
                 /\ abortControllerRef' = 0
                 /\ messages' = messages]_vars

\* the body of a turn ended after content was appended to its Message, and
\* the Message holds that content
C12_Witness ==
    /\ lastCall.op = "readDone" /\ tasks[1].appended
    /\ HasAssistant(messages, 1) /\ ContentOf(messages, 1) = Hi
    /\ ~isLoading /\ abortControllerRef = 0

\* the chunks that carry an end marker: a payload that is exactly [DONE],
\* <end> on a line of its own, <end> after the last payload; and the text
\* that stands before the marker
MarkerChunks == {ChunkDone, ChunkEnd, ChunkHiEnd}
TextBeforeMarker(chunk) == IF chunk = ChunkHiEnd THEN Hi ELSE <<>>

\* C13 (end marker): in the revisions that know an end marker, the chunk that
\* brings the first end marker of a turn clears the loading flag, and appends
\* the text before the marker and nothing of the marker.
C13_EndMarkerCompletes ==
    [][\A t \in Turns :
          (/\ dialect \in {"lines", "concat"}
           /\ lastCall'.op = "readChunk" /\ lastCall'.turn = t
           /\ lastCall'.arg \in MarkerChunks
           /\ tasks[t].doneMarkers = 0
           /\ HasAssistant(messages, t) /\ HasAssistant(messages', t))
              => /\ ~isLoading'
                 /\ ContentOf(messages', t) =
                        ContentOf(messages, t) \o TextBeforeMarker(lastCall'.arg)]_vars

\* C14 (nothing after the end marker): a chunk that starts with the [DONE]
\* payload appends nothing, and once a chunk with an end marker has been
\* processed no later chunk changes the assistant Message.
C14_NothingAfterEndMarker ==
    [][\A t \in Turns :
          (/\ dialect \in {"lines", "concat"}
           /\ lastCall'.op = "readChunk" /\ lastCall'.turn = t
           /\ tasks[t].doneMarkers > 0 \/ lastCall'.arg = ChunkDoneThenData
           /\ HasAssistant(messages, t) /\ HasAssistant(messages', t))
              => ContentOf(messages', t) = ContentOf(messages, t)]_vars

\* chunks that deliver an end marker and nothing else
StreamEndedChunks == {ChunkDone, ChunkEnd}

C16_SentinelStripping ==
    [][\A t \in Turns :
          (/\ dialect \in {"chank", "concat"}
           /\ lastCall'.op = "readChunk" /\ lastCall'.turn = t
           /\ lastCall'.arg \in {ChunkSentinel, ChunkTrailingSentinel}
           /\ HasAssistant(messages, t) /\ HasAssistant(messages', t))
              => ContentOf(messages', t) = ContentOf(messages, t) \o Foo]_vars

\* the payload each line of FramingLines stands for: the text after data:
\* without its leading white space, nothing for [DONE] and for the lines
\* that are no data: lines
ExpectedPayload(line) ==
    CASE line = LineHi -> Hi
      [] line = LineYo -> <<"y", "o", " ">>
      [] OTHER -> <<>>

RECURSIVE ExpectedText(_)
ExpectedText(ls) ==
    IF ls = <<>> THEN <<>> ELSE ExpectedPayload(Head(ls)) \o ExpectedText(Tail(ls))

\* C17 (framing): a chunk made of complete lines, none of them an error
\* event, appends to the assistant Message the payloads of its data: lines,
\* in their order and with nothing between them, [DONE] left out; blank
\* lines, comment lines, event: end and other event: lines add nothing, and
\* the chunk changes neither the other Messages nor the error, the loading
\* flag or the token slot.
C17_Framing ==
    [][\A t \in Turns : \A ls \in LineSeqs :
          (/\ lastCall'.op = "readLines" /\ lastCall'.turn = t
           /\ lastCall'.arg = JoinLines(ls))
              => /\ HasAssistant(messages', t)
                 /\ ContentOf(messages', t) = ContentOf(messages, t) \o ExpectedText(ls)
                 /\ Others(messages', t) = Others(messages, t)
                 /\ UNCHANGED <<error, isLoading, abortControllerRef>>]_vars

\* the chunk "data: Hi\ndata:yo \n" has been processed
C17_Witness ==
    /\ lastCall.op = "readLines" /\ lastCall.arg = JoinLines(<<LineHi, LineYo>>)
    /\ HasAssistant(messages, 1)
    /\ ContentOf(messages, 1) = <<"H", "i", "y", "o", " ">>

\* C18 (late chunk): a chunk that a read returns after the token of the turn
\* was cancelled is discarded: it changes neither the content of the
\* assistant Message nor the conversation-level error.
C18_LateChunkDiscarded ==
    [][\A t \in Turns :
          (/\ aborted[t] /\ lastCall'.turn = t
           /\ lastCall'.op \in {"readLate", "cancelled"}
           /\ lastCall'.arg \in Chunks)
              => /\ error' = error
                 /\ (HasAssistant(messages, t) /\ HasAssistant(messages', t))
                        => ContentOf(messages', t) = ContentOf(messages, t)]_vars

\* the operations of the user; every other value of lastCall.op is a step of
\* the task of turn lastCall.turn
UserCalls == {"init", "reset", "refused", "submit"}

\* C19 (teardown before the next request): once a new turn has been
\* accepted, the task of an earlier turn takes no step: every step of a task
\* is a step of the newest turn.
C19_TeardownBeforeNextTurn ==
    [][lastCall'.op \notin UserCalls => lastCall'.turn = nturns]_vars

\* C20 (turn isolation): a step of the task of a turn changes no Message
\* but the assistant Message of that turn: the other Messages keep their id,
\* role, content and order.
C20_TurnIsolation ==
    [][\A t \in Turns :
          (lastCall'.op \notin UserCalls /\ lastCall'.turn = t)
              => Others(messages', t) = Others(messages, t)]_vars

\* the read of turn 2 has failed: its assistant Message holds the failure
\* annotation, the Messages of turn 1 are as they were
C20_Witness ==
    /\ lastCall.op = "readFails" /\ lastCall.turn = 2
    /\ Len(messages) = 4
    /\ messages[2].id = AssistantId(1) /\ messages[2].content = Hi
    /\ messages[4].id = AssistantId(2)
    /\ messages[4].content = FailureAnnotation(NetworkFailure)

\* the ids of a conversation, and its user Messages, in order
Ids(msgs) == [k \in 1..Len(msgs) |-> msgs[k].id]
UsersOf(msgs) == SelectSeq(msgs, LAMBDA m : m.role = "user")

\* C21 (append-only conversation): a step that is not a reset keeps the user
\* Messages as they are and in their order, and either keeps all Messages in
\* place, new ones coming at the end, or removes nothing but the assistant
\* Message of a cancelled turn.
C21_AppendOnly ==
    [][lastCall'.op # "reset"
          => /\ IsPrefix(UsersOf(messages), UsersOf(messages'))
             /\ \/ IsPrefix(Ids(messages), Ids(messages'))
                \/ /\ lastCall'.op = "cancelled" /\ aborted[lastCall'.turn]
                   /\ Ids(messages') = Ids(Others(messages, lastCall'.turn))]_vars

\* a submit accepted after the first turn has failed: the conversation has
\* grown at its end, the Messages of the first turn are in place
C21_Witness ==
    /\ lastCall.op = "submit" /\ lastCall.turn = 2
    /\ Ids(messages) = <<UserId(1), AssistantId(1), UserId(2), AssistantId(2)>>
    /\ messages[2].content = FailureAnnotation(NetworkFailure)

\* the message the order json (error, message, serialization), raw text,
\* status message gives for each body
ExpectedErrorBody(body) ==
    CASE body = "json_error" -> JsonErrorField
      [] body = "json_message" -> JsonMessageField
      [] body = "json_other" -> JsonOther
      [] body = "text" -> RawBodyText
      [] OTHER -> StatusMessage

\* C22 (message of a non-success status): a turn whose response has a
\* non-success status fails with the error field of a JSON body, and with the
\* raw text of a body that is no JSON.
C22_StatusMessageOrder ==
    [][\A t \in Turns :
          (/\ lastCall'.op = "errorBodyRead" /\ lastCall'.turn = t
           /\ ~aborted[t])
              => error' = <<ExpectedErrorBody(lastCall'.arg[1])>>]_vars

\* C23 (split-character safety): however the bytes are cut into chunks, the
\* text given out chunk by chunk, followed by what the bytes still to come
\* decode to, is the text of the whole stream decoded in one pass; it holds
\* no replacement character, and when all bytes have been read it is the
\* text of the stream.
C23_SplitCharacterSafety ==
    /\ tasks[1].decoded \o Decode(tasks[1].pending, wire).text
          = Decode(<<>>, ByteStream).text
    /\ \A k \in 1..Len(tasks[1].decoded) : tasks[1].decoded[k] # ReplacementCodePoint
    /\ wire = <<>> => tasks[1].decoded = ByteStreamCodePoints

\* a chunk has ended after the second byte of the four bytes of U+1F600: the
\* decoder holds the two bytes and has given out the characters before them
C23_Witness ==
    /\ lastCall.op = "readBytes"
    /\ tasks[1].pending = <<240, 159>>
    /\ tasks[1].decoded = <<100, 97, 116, 97, 58, 32, 12456, 233>>

\* the chunks with error events, in the framing of the revision that reads
\* them, and the message of the last error event of each: the payload of the
\* first data: line after it
ErrorChunks ==
    {<<"lines", ChunkError>>, <<"lines", ChunkTwoErrors>>,
     <<"chank", ChunkErrorAfterData>>}
ExpectedErrorData(chunk) ==
    CASE chunk = ChunkError -> RateLimited
      [] chunk = ChunkTwoErrors -> <<"b">>
      [] chunk = ChunkErrorAfterData -> <<"y">>

\* C24 (message of an error event): the conversation-level error a chunk
\* leaves is made of the payload of the first data: line after its last
\* error line, also when the chunk holds two error lines and when a data:
\* line stands before the error line.
C24_ErrorMessageSearch ==
    [][\A t \in Turns :
          (/\ lastCall'.op = "readChunk" /\ lastCall'.turn = t
           /\ <<dialect, lastCall'.arg>> \in ErrorChunks)
              => error' = <<ErrorFromPrefix \o ExpectedErrorData(lastCall'.arg)>>]_vars

\* the text of the chunks with an ignore marker up to the marker
TextBeforeIgnore(chunk) ==
    IF chunk = ChunkIgnoreHash THEN <<"a", "b">> ELSE <<"b">>

\* C25 (ignore marker): in the revision with the markers ## and **, a chunk
\* with a marker in a payload appends the earlier payloads and the part of
\* that payload before the marker, and nothing from the marker on.
C25_IgnoreMarker ==
    [][\A t \in Turns :
          (/\ dialect = "concat"
           /\ lastCall'.op = "readChunk" /\ lastCall'.turn = t
           /\ lastCall'.arg \in {ChunkIgnoreHash, ChunkIgnoreStar}
           /\ HasAssistant(messages, t) /\ HasAssistant(messages', t))
              => ContentOf(messages', t) =
                    ContentOf(messages, t) \o TextBeforeIgnore(lastCall'.arg)]_vars

\* C26 (slot of a newer turn): a step of the task of a turn leaves the token
\* slot as it is when the slot holds the token of another turn.
C26_SlotNotClobbered ==
    [][\A t \in Turns :
          (/\ lastCall'.op \notin UserCalls /\ lastCall'.turn = t
           /\ abortControllerRef \notin {0, t})
              => abortControllerRef' = abortControllerRef]_vars

\* C27 (loading while active): while the task of a turn is active (started,
\* not finished, its token not cancelled) the loading flag is true.
C27_LoadingWhileActive == \A t \in Turns : Active(t) => isLoading

\* the chunks in which a data: line stands before an error line, in the
\* framing of the revision that reads them, and the payload of that line
OrderChunks == {<<"lines", ChunkDataThenError>>, <<"chank", ChunkErrorAfterData>>}
TextBeforeError(chunk) == IF chunk = ChunkDataThenError THEN Hi ELSE <<"x">>

\* C28 (stream order within a chunk): the payload of a data: line that
\* stands before an error line comes first in what the chunk adds to the
\* assistant Message, before the error annotation.
C28_StreamOrderInChunk ==
    [][\A t \in Turns :
          (/\ lastCall'.op = "readChunk" /\ lastCall'.turn = t
           /\ <<dialect, lastCall'.arg>> \in OrderChunks
           /\ HasAssistant(messages, t) /\ HasAssistant(messages', t))
              => IsPrefix(ContentOf(messages, t) \o TextBeforeError(lastCall'.arg),
                          ContentOf(messages', t))]_vars

Streaming(t) == tasks[t].pc \notin {"none", "done"}

\* C29 (termination): when the outcomes of the transport are delivered, every
\* task that is under way comes to its end, and the step that ends a task
\* leaves the loading flag false; when no task is under way the loading flag
\* is false; and the position of a task changes in no step but the accepted
\* submit and the steps of the task itself.
C29_Termination ==
    /\ []<>(\A t \in Turns : ~Streaming(t))
    /\ [][\A t \in Turns :
            (Streaming(t) /\ tasks'[t].pc = "done") => ~isLoading']_vars
    /\ []((\A t \in Turns : ~Streaming(t)) => ~isLoading)
    /\ [][\A t \in Turns :
            tasks'[t].pc # tasks[t].pc
                => (lastCall'.turn = t /\ lastCall'.op # "reset")]_vars

\* a turn cancelled by a reset while its read was pending has come to its end
C29_Witness ==
    /\ lastCall.op = "readAborted" /\ lastCall.turn = 1
    /\ tasks[1].pc = "done" /\ aborted[1] /\ ~isLoading

\* C30 (pairing): every assistant Message of the conversation stands right
\* after the user Message of the same submit; no two assistant Messages are
\* neighbours.
C30_Pairing ==
    \A k \in 1..Len(messages) :
        messages[k].role = "assistant"
            => /\ k > 1
               /\ messages[k - 1].role = "user"
               /\ messages[k - 1].id[2] = messages[k].id[2]

\* two turns in the conversation, the second one streaming content
C30_Witness ==
    /\ lastCall.op = "readChunk" /\ lastCall.turn = 2
    /\ Len(messages) = 4
    /\ messages[3].role = "user" /\ messages[4].role = "assistant"
    /\ messages[4].content = Hi

====
